---- MODULE Spec2Model ----
(***************************************************************************)
(* Geological history engine of plate-simulation: the Geology validator,   *)
(* the events and their masks, and the Series / Lithology / Scenario       *)
(* composers (src/plate_simulation/models/series.py and events.py).        *)
(*                                                                         *)
(* Lengths are in half-metres, so that the surfaces of the repository's    *)
(* tests (0, -2, -5, -10 m) and cell centroids between them are integers.  *)
(* Model values are rationals <<numerator, denominator>>; <<0,0>> is NaN   *)
(* and <<1,0>> is +inf, as numpy produces them.                            *)
(***************************************************************************)
EXTENDS Integers, Sequences, FiniteSets, TLC

\* ------------------------------------------------------------------ bounds
MaxLen == 3          \* longest event sequence handed to Geology / Scenario
MaxNumber == 3       \* largest number of plates asked of replicate
MaxReads == 2        \* reads of Plate.vertices on one Plate

\* ------------------------------------------------------------------ values
NaN == <<0, 0>>
Inf == <<1, 0>>
Num(n) == <<n, 1>>

RECURSIVE Gcd(_, _)
Gcd(a, b) == IF b = 0 THEN a ELSE Gcd(b, a % b)

Abs(n) == IF n < 0 THEN -n ELSE n

\* v ** -1.0 on a float64: 0 -> inf, inf -> 0, nan -> nan, n/d -> d/n
Reciprocal(v) ==
    LET n == v[1]
        d == v[2]
    IN  IF n = 0 /\ d = 0 THEN NaN
        ELSE IF n = 0 THEN Inf
        ELSE IF d = 0 THEN Num(0)
        ELSE LET g == Gcd(Abs(n), Abs(d))
             IN  IF n < 0 THEN <<(0 - d) \div g, (0 - n) \div g>>
                          ELSE <<d \div g, n \div g>>

\* ---------------------------------------------------------------- surfaces
\* A surface is its vertices: the elevation at each of the two mesh columns.
\* (Surface.create(..., vertices=...) in the tests; flat 10x10 squares.)
Flat(z) == <<z, z>>
topography == [name |-> "topo",   vertices |-> Flat(0)]
layer1     == [name |-> "layer1", vertices |-> Flat(-4)]
layer2     == [name |-> "layer2", vertices |-> Flat(-10)]
layer3     == [name |-> "layer3", vertices |-> Flat(-20)]
dipping    == [name |-> "dip",    vertices |-> <<-4, -20>>]

\* a surface whose vertices are not defined (vertices is None)
NoVertices == <<>>
void == [name |-> "void", vertices |-> NoVertices]

\* a closed surface: the corners <<column, elevation>> of a box-shaped plate
\* in the vertical section of the mesh
Box(x1, x2, z1, z2) == << <<x1, z1>>, <<x2, z1>>, <<x2, z2>>, <<x1, z2>> >>
plate_wide == [name |-> "plate", vertices |-> Box(0, 3, -15, -3)]
plate_edge == [name |-> "plate", vertices |-> Box(1, 3, -30, 0)]

\* ------------------------------------------------------------------ events
NoHistory == <<>>

Anomaly(surface, value) ==
    [kind |-> "Anomaly", surface |-> surface.vertices, thickness |-> 0,
     value |-> value, history |-> NoHistory]

Deposition(surface, value) ==
    [kind |-> "Deposition", surface |-> surface.vertices, thickness |-> 0,
     value |-> value, history |-> NoHistory]

Overburden(topo, thickness, value) ==
    [kind |-> "Overburden", surface |-> topo.vertices, thickness |-> thickness,
     value |-> value, history |-> NoHistory]

Erosion(surface) ==
    [kind |-> "Erosion", surface |-> surface.vertices, thickness |-> 0,
     value |-> NaN, history |-> NoHistory]

Reverse(s) == [i \in 1..Len(s) |-> s[Len(s) + 1 - i]]

\* Series.__init__ keeps the sequence it is given
Series(history) ==
    [kind |-> "Series", surface |-> <<>>, thickness |-> 0,
     value |-> NaN, history |-> history]

\* a Lithology that keeps the order of the list it is given
LithologyInOrder(history) ==
    [kind |-> "Lithology", surface |-> <<>>, thickness |-> 0,
     value |-> NaN, history |-> history]

\* Lithology.__init__: super().__init__(history[::-1])
Lithology(history) ==
    [kind |-> "Lithology", surface |-> <<>>, thickness |-> 0,
     value |-> NaN, history |-> Reverse(history)]

\* the objects of tests/models/series_test.py
dep3 == Deposition(layer3, Num(3))
dep2 == Deposition(layer2, Num(2))
dep1 == Deposition(layer1, Num(1))
layers == <<dep3, dep2, dep1>>
lithology  == Lithology(layers)
dep_dip == Deposition(dipping, Num(5))
overburden == Overburden(topography, 2, Num(10))
anomaly      == Anomaly(plate_wide, Num(8))
anomaly_edge == Anomaly(plate_edge, Num(8))
erosion    == Erosion(topography)
dep_void   == Deposition(void, Num(4))

\* ----------------------------------------------------------------- Geology
IsSeries(e) == e.kind \in {"Series", "Lithology"}
IsOverburden(e) == e.kind = "Overburden"
IsErosion(e)    == e.kind = "Erosion"

Ok == [raised |-> "None", message |-> ""]
IndexError == [raised |-> "IndexError", message |-> "list index out of range"]
OverburdenViolation ==
    [raised |-> "GeologyViolationError",
     message |-> "Overburden events must occur before the final erosion in the history."]
ErosionViolation ==
    [raised |-> "GeologyViolationError",
     message |-> "The last event in a geological history must be an erosion."]

\* Geology._validate_overburden: events[-2] is evaluated only when some
\* event is an Overburden, and raises IndexError on a sequence of length 1
ValidateOverburden(events) ==
    IF \E i \in 1..Len(events) : IsOverburden(events[i])
    THEN IF Len(events) < 2 THEN IndexError
         ELSE IF ~IsOverburden(events[Len(events) - 1]) THEN OverburdenViolation
         ELSE Ok
    ELSE Ok

\* a validator that looks at the first event instead of the last
ValidateTopographyFirst(events) ==
    IF Len(events) < 1 THEN IndexError
    ELSE IF ~IsErosion(events[1]) THEN ErosionViolation
    ELSE Ok

\* Geology._validate_topography: events[-1] raises IndexError on []
ValidateTopography(events) ==
    IF Len(events) < 1 THEN IndexError
    ELSE IF ~IsErosion(events[Len(events)]) THEN ErosionViolation
    ELSE Ok

\* a validator that runs the two checks in the other order
ValidateHistoryTopographyFirst(events) ==
    IF ValidateTopography(events) # Ok THEN ValidateTopography(events)
    ELSE ValidateOverburden(events)

\* Geology._validate_history: the first check that raises ends validation
ValidateHistory(events) ==
    IF ValidateOverburden(events) # Ok THEN ValidateOverburden(events)
    ELSE ValidateTopography(events)

\* event sequences handed to Geology: top-level elements of every class
GeologyEvents == {lithology, overburden, erosion}

RECURSIVE SeqsUpTo(_, _)
SeqsUpTo(S, n) ==
    IF n = 0 THEN {<<>>}
    ELSE LET shorter == SeqsUpTo(S, n - 1)
         IN  shorter \cup {Append(s, e) : s \in {t \in shorter : Len(t) = n - 1}, e \in S}

Histories == SeqsUpTo(GeologyEvents, MaxLen)

\* ------------------------------------------------------------------- mesh
None == -1

\* an octree reduced to its cell centroids <<column, elevation>>: column 1
\* has a cell in every interval the tests look at, column 2 has cells lying
\* exactly on the surfaces at -2 m and -10 m
octree ==
    [n_cells |-> 9,
     centroids |-> << <<1, 1>>, <<1, -1>>, <<1, -3>>, <<1, -7>>, <<1, -15>>,
                      <<1, -25>>, <<2, -4>>, <<2, -12>>, <<2, -20>> >>]
coarse ==
    [n_cells |-> 3,
     centroids |-> << <<1, 3>>, <<1, -9>>, <<2, -30>> >>]
unbuilt == [n_cells |-> None, centroids |-> <<>>]

VARIABLES
    geology,      \* the Geology object: [live, history] (_history once set)
    g_events,     \* the sequence last handed to Geology
    g_op,         \* the operation last called on Geology
    g_result,     \* what that operation raised
    on_surface,   \* what active_from_xyz answers for a centroid lying exactly
                  \* on the surface (the library is not part of the package)
    s_event,      \* the Event or Series object under realization
    s_arg,        \* the list handed to the Series / Lithology constructor
    s_layers,     \* the caller's list after the constructor returned
    s_op,         \* the operation last called on s_event
    s_mesh,       \* the mesh handed to realize
    s_surface,    \* the vertices, as they are now, of the Surface object a
                  \* single event was built on
    model_in,     \* the array handed to realize, as it was at the call
    model,        \* the array realize returned (the same array, updated)
    scenario,     \* the Scenario object: [live, workspace, mesh, background,
                  \* history, name]; history is [geology, events], geology
                  \* telling whether it is a Geology or a plain sequence
    sc_op,        \* the operation last called on the Scenario
    sc_result,    \* what that operation raised
    sc_mesh,      \* the mesh last handed to the mesh setter
    sc_array,     \* the array geologize built and handed to realize, as the
                  \* events left it
    mesh_data,    \* the data attached to the scenario's mesh by add_data
    returned,     \* the values of the FloatData geologize returned
    r_surface,    \* the Surface object handed to replicate, as it is now
    r_args,       \* the arguments of the last call of replicate, the
                  \* surface as it was at the call
    r_out,        \* the list replicate returned
    r_op,         \* the operation last called on r_surface
    p_args,       \* the keyword arguments last handed to PlateParams
    p_params,     \* the PlateParams object
    p_call,       \* the arguments of the last call of center
    p_center,     \* the list center returned
    p_result,     \* what that call raised
    p_op,         \* the operation last called on p_params
    pl_plate,     \* the Plate object: [live, params, center, given], given
                  \* the centre handed to the constructor
    pl_vertices,  \* the array the last read of Plate.vertices returned
    pl_triangles, \* the array the last read of Plate.triangles returned
    pl_reads,     \* how many times Plate.vertices was read
    pl_op         \* the operation last called on the Plate

gvars == <<geology, g_events, g_op, g_result>>
svars == <<s_event, s_arg, s_layers, s_op, s_mesh, s_surface, model_in, model>>
scvars == <<scenario, sc_op, sc_result, sc_mesh, sc_array, mesh_data, returned>>
rvars == <<r_surface, r_args, r_out, r_op>>
pvars == <<p_args, p_params, p_call, p_center, p_result, p_op>>
plvars == <<pl_plate, pl_vertices, pl_triangles, pl_reads, pl_op>>
vars == <<gvars, on_surface, svars, scvars, rvars, pvars, plvars>>

NoGeology == [live |-> FALSE, history |-> <<>>]

IdleGeology ==
    /\ geology = NoGeology
    /\ g_events = <<>>
    /\ g_op = "none"
    /\ g_result = Ok

IdleSeries ==
    /\ s_event = Series(<<>>)
    /\ s_arg = <<>>
    /\ s_layers = <<>>
    /\ s_op = "none"
    /\ s_mesh = unbuilt
    /\ s_surface = NoVertices
    /\ model_in = <<>>
    /\ model = <<>>

NoScenario ==
    [live |-> FALSE, workspace |-> "", mesh |-> unbuilt, background |-> NaN,
     history |-> [geology |-> FALSE, events |-> <<>>], name |-> ""]

IdleScenario ==
    /\ scenario = NoScenario
    /\ sc_op = "none"
    /\ sc_result = Ok
    /\ sc_mesh = unbuilt
    /\ sc_array = <<>>
    /\ mesh_data = <<>>
    /\ returned = <<>>

\* a Surface name: "test offset 1 offset 2" is base "test" with the
\* suffixes <<1, 2>>, a name as created has no suffix
Name(base) == [base |-> base, suffixes |-> <<>>]

NoSurface == [name |-> Name(""), vertices |-> NoVertices]
NoArgs == [surface |-> NoSurface, number |-> 0, spacing |-> 0, azimuth |-> 0]

IdleReplicate ==
    /\ r_surface = NoSurface
    /\ r_args = NoArgs
    /\ r_out = <<>>
    /\ r_op = "none"

\* a keyword argument that is None or not given
Unset == "<unset>"

NoParams ==
    [live |-> FALSE, number |-> 0, spacing |-> 0, relative_locations |-> FALSE,
     easting |-> 0, northing |-> 0, elevation |-> 0, dip_length |-> 0,
     dip |-> 0, reference_type |-> Unset]
NoCall == [survey |-> <<>>, surface |-> NoVertices, depth_offset |-> 0]

IdleParams ==
    /\ p_args = NoParams
    /\ p_params = NoParams
    /\ p_call = NoCall
    /\ p_center = <<>>
    /\ p_result = Ok
    /\ p_op = "none"

NoPlate ==
    [live |-> FALSE, params |-> [strike_length |-> 0, dip_length |-> 0,
                                 width |-> 0, dip |-> 0, dip_direction |-> 0,
                                 reference |-> "center"],
     center |-> <<0, 0, 0>>, given |-> <<0, 0, 0>>]

IdlePlate ==
    /\ pl_plate = NoPlate
    /\ pl_vertices = <<>>
    /\ pl_triangles = <<>>
    /\ pl_reads = 0
    /\ pl_op = "none"

InitGeology ==
    /\ IdleGeology
    /\ IdleSeries
    /\ IdleScenario
    /\ IdleReplicate
    /\ IdleParams
    /\ IdlePlate
    /\ on_surface = FALSE

\* a setter that stores the events and validates afterwards
HistorySetterStoresFirst(g, events) == [live |-> TRUE, history |-> events]

\* Geology.history setter: validate, then store
HistorySetter(g, events) ==
    IF ValidateHistory(events) = Ok
    THEN [live |-> TRUE, history |-> events]
    ELSE g

\* Geology(events): a constructor that raises leaves no new object, the
\* caller's variable keeps the Geology it held
GeologyInit(events) ==
    /\ g_events' = events
    /\ g_op' = "init"
    /\ g_result' = ValidateHistory(events)
    /\ geology' = HistorySetter(geology, events)
    /\ UNCHANGED <<on_surface, rvars, pvars, plvars, svars, scvars>>

\* geology.history = events on an existing Geology
GeologySetHistory(events) ==
    /\ geology.live
    /\ g_events' = events
    /\ g_op' = "set"
    /\ g_result' = ValidateHistory(events)
    /\ geology' = HistorySetter(geology, events)
    /\ UNCHANGED <<on_surface, rvars, pvars, plvars, svars, scvars>>

NextGeology ==
    \/ \E events \in Histories : GeologyInit(events)
    \/ \E events \in Histories : GeologySetHistory(events)

SpecGeology == InitGeology /\ [][NextGeology]_vars

\* ------------------------------------------------------------------- masks
\* Boundary.vertical_shift: the vertices moved up by offset, as a new array
VerticalShift(vertices, offset) ==
    [c \in 1..Len(vertices) |-> vertices[c] + offset]

\* a vertical_shift that adds the shift to the vertices of the surface
SurfaceAfterMaskShifted(vertices, offset) == VerticalShift(vertices, offset)

\* the vertices of the surface once Boundary.mask has returned:
\* vertical_shift returns self.surface.vertices + shift, a new array
SurfaceAfterMask(vertices, offset) == vertices

\* active_from_xyz(mesh, xyz, "center"): TRUE for a cell whose centroid is
\* below the surface at the cell's column
ActiveFromXyz(mesh, xyz, tie) ==
    [i \in 1..Len(mesh.centroids) |->
        LET col == mesh.centroids[i][1]
            z   == mesh.centroids[i][2]
        IN  z < xyz[col] \/ (tie /\ z = xyz[col])]

\* Boundary.mask(mesh, offset, reference="center")
BoundaryMask(mesh, vertices, offset, tie) ==
    ActiveFromXyz(mesh, VerticalShift(vertices, offset), tie)

Min2(a, b) == IF a < b THEN a ELSE b
Max2(a, b) == IF a < b THEN b ELSE a

\* ProximityQuery(Trimesh(vertices, faces)).signed_distance(point) for a
\* box: positive inside (the distance to the nearest face), 0 on the
\* boundary, negative outside; only the sign of an outside distance is
\* kept, the code compares the distance with 0
SignedDistance(vertices, point) ==
    LET xmin == Min2(vertices[1][1], vertices[3][1])
        xmax == Max2(vertices[1][1], vertices[3][1])
        zmin == Min2(vertices[1][2], vertices[3][2])
        zmax == Max2(vertices[1][2], vertices[3][2])
    IN  Min2(Min2(point[1] - xmin, xmax - point[1]),
             Min2(point[2] - zmin, zmax - point[2]))

\* Body.mask: dist > 0 at the cell centroids
BodyMask(mesh, vertices) ==
    [i \in 1..Len(mesh.centroids) |->
        SignedDistance(vertices, mesh.centroids[i]) > 0]

\* ------------------------------------------------------------------ realize
\* an Anomaly that also fills the cells lying on the surface
AnomalyRealizeClosed(event, mesh, m, tie) ==
    [i \in 1..Len(m) |->
        IF SignedDistance(event.surface, mesh.centroids[i]) >= 0
        THEN event.value ELSE m[i]]

\* Anomaly.realize: model[self.body.mask(mesh)] = self.value
AnomalyRealize(event, mesh, m, tie) ==
    LET mask == BodyMask(mesh, event.surface)
    IN  [i \in 1..Len(m) |-> IF mask[i] THEN event.value ELSE m[i]]

\* a Deposition that fills the cells its mask leaves out
DepositionRealizeAbove(event, mesh, m, tie) ==
    LET mask == BoundaryMask(mesh, event.surface, 0, tie)
    IN  [i \in 1..Len(m) |-> IF ~mask[i] THEN event.value ELSE m[i]]

\* Deposition.realize: model[self.surface.mask(mesh)] = self.value
DepositionRealize(event, mesh, m, tie) ==
    LET mask == BoundaryMask(mesh, event.surface, 0, tie)
    IN  [i \in 1..Len(m) |-> IF mask[i] THEN event.value ELSE m[i]]

\* an Overburden that fills the cells below its shifted surface
OverburdenRealizeBelow(event, mesh, m, tie) ==
    LET mask == BoundaryMask(mesh, event.surface, (0 - 1) * event.thickness, tie)
    IN  [i \in 1..Len(m) |-> IF mask[i] THEN event.value ELSE m[i]]

\* Overburden.realize: model[~mask(mesh, offset=-thickness)] = self.value
OverburdenRealize(event, mesh, m, tie) ==
    LET mask == BoundaryMask(mesh, event.surface, (0 - 1) * event.thickness, tie)
    IN  [i \in 1..Len(m) |-> IF ~mask[i] THEN event.value ELSE m[i]]

\* an Erosion that restores the cells it finds already cut
ErosionRealizeToggle(event, mesh, m, tie) ==
    LET mask == BoundaryMask(mesh, event.surface, 0, tie)
    IN  [i \in 1..Len(m) |->
            IF mask[i] THEN m[i] ELSE IF m[i] = NaN THEN Num(0) ELSE NaN]

\* an Erosion that cuts the cells below its surface
ErosionRealizeBelow(event, mesh, m, tie) ==
    LET mask == BoundaryMask(mesh, event.surface, 0, tie)
    IN  [i \in 1..Len(m) |-> IF mask[i] THEN NaN ELSE m[i]]

\* Erosion.realize: model[~self.surface.mask(mesh)] = np.nan
ErosionRealize(event, mesh, m, tie) ==
    LET mask == BoundaryMask(mesh, event.surface, 0, tie)
    IN  [i \in 1..Len(m) |-> IF ~mask[i] THEN NaN ELSE m[i]]

\* Boundary.vertical_shift, reached through Boundary.mask
VerticesError ==
    [raised |-> "ValueError", message |-> "Surface vertices are not defined."]

RECURSIVE Raises(_)
RECURSIVE FirstError(_, _)

\* what event.realize raises: a Deposition, Overburden or Erosion raises
\* when its surface has no vertices, a Series raises what the first of its
\* events that raises does
Raises(event) ==
    CASE event.kind \in {"Deposition", "Overburden", "Erosion"} ->
            IF event.surface = NoVertices THEN VerticesError ELSE Ok
      [] IsSeries(event) -> FirstError(event.history, 1)
      [] OTHER -> Ok

FirstError(history, k) ==
    IF k > Len(history) THEN Ok
    ELSE IF Raises(history[k]) # Ok THEN Raises(history[k])
    ELSE FirstError(history, k + 1)

\* the vertices of the surface of a single event once its realize has
\* returned: Deposition and Erosion call mask with no offset, Overburden
\* with offset = -1 * self.thickness, Anomaly does not call Boundary.mask
SurfaceAfterRealize(event) ==
    CASE event.kind \in {"Deposition", "Erosion"} ->
            SurfaceAfterMask(event.surface, 0)
      [] event.kind = "Overburden" ->
            SurfaceAfterMask(event.surface, -1 * event.thickness)
      [] OTHER -> event.surface

\* events hold their Surface object, not a copy: the events of a history
\* built on the surface of the event just realized see what that
\* realization left of it
Rebind(history, event) ==
    IF IsSeries(event) \/ SurfaceAfterRealize(event) = event.surface THEN history
    ELSE [j \in 1..Len(history) |->
            IF ~IsSeries(history[j]) /\ history[j].surface = event.surface
            THEN [history[j] EXCEPT !.surface = SurfaceAfterRealize(event)]
            ELSE history[j]]

RECURSIVE Realize(_, _, _, _)
RECURSIVE Fold(_, _, _, _, _)

\* a loop that catches what an event raises and goes on with the next event
FoldSkipsFailure(history, k, mesh, m, tie) ==
    IF k > Len(history) THEN m
    ELSE IF Raises(history[k]) # Ok THEN Fold(history, k + 1, mesh, m, tie)
    ELSE Fold(history, k + 1, mesh, Realize(history[k], mesh, m, tie), tie)

\* a loop that hands every event the array realize was called with
FoldOnInput(history, k, mesh, m, tie) ==
    IF Len(history) = 0 THEN m
    ELSE Realize(history[Len(history)], mesh, m, tie)

\* the loop of Series.realize from its k-th event on:
\* for event in self.history: model = event.realize(mesh, model)
\* an event that raises ends the loop; the array stays as that event left it
Fold(history, k, mesh, m, tie) ==
    IF k > Len(history) THEN m
    ELSE IF Raises(history[k]) # Ok THEN Realize(history[k], mesh, m, tie)
    ELSE Fold(Rebind(history, history[k]), k + 1, mesh,
              Realize(history[k], mesh, m, tie), tie)

\* Series.realize (inherited by Lithology)
SeriesRealize(series, mesh, m, tie) == Fold(series.history, 1, mesh, m, tie)

\* event.realize(mesh, model), dispatched on the class of the event; a
\* Boundary event raises in mask, before it writes to the array
Realize(event, mesh, m, tie) ==
    IF ~IsSeries(event) /\ Raises(event) # Ok THEN m
    ELSE CASE event.kind = "Deposition" -> DepositionRealize(event, mesh, m, tie)
           [] event.kind = "Overburden" -> OverburdenRealize(event, mesh, m, tie)
           [] event.kind = "Erosion"    -> ErosionRealize(event, mesh, m, tie)
           [] event.kind = "Anomaly"    -> AnomalyRealize(event, mesh, m, tie)
           [] OTHER                     -> SeriesRealize(event, mesh, m, tie)

\* ------------------------------------------- events and series, realized
LeafEvents == {dep1, dep2, dep3, dep_dip, overburden, erosion, anomaly, anomaly_edge}
SeriesEvents == {dep_dip, overburden, erosion, lithology}
Depositions == {dep1, dep2, dep3, dep_dip}
SeriesHistories == SeqsUpTo(SeriesEvents, MaxLen)
LayerLists == SeqsUpTo(Depositions, MaxLen)
Meshes == {octree, coarse}

\* np.zeros(n), np.ones(n), and an array that already holds NaN cells
Uniform(mesh, v) == [i \in 1..mesh.n_cells |-> v]
Eroded(mesh) == [i \in 1..mesh.n_cells |-> IF i % 2 = 1 THEN NaN ELSE Num(7)]
InputModels(mesh) == {Uniform(mesh, Num(0)), Uniform(mesh, Num(1)), Eroded(mesh)}

InitSeries ==
    /\ IdleGeology
    /\ IdleSeries
    /\ IdleScenario
    /\ IdleReplicate
    /\ IdleParams
    /\ IdlePlate
    /\ on_surface \in BOOLEAN

\* what the caller's list holds once Lithology.__init__ has returned:
\* history[::-1] builds a new list and leaves the argument alone
CallerList(history) == history

\* Deposition(...), Overburden(...), Erosion(...)
EventInit(e) ==
    /\ s_event' = e
    /\ s_surface' = e.surface
    /\ s_arg' = <<>>
    /\ s_layers' = <<>>
    /\ s_op' = "init"
    /\ s_mesh' = unbuilt
    /\ model_in' = <<>>
    /\ model' = <<>>
    /\ UNCHANGED <<gvars, on_surface, rvars, pvars, plvars, scvars>>

\* Series(history)
SeriesInit(history) ==
    /\ s_event' = Series(history)
    /\ s_surface' = NoVertices
    /\ s_arg' = history
    /\ s_layers' = history
    /\ s_op' = "init"
    /\ s_mesh' = unbuilt
    /\ model_in' = <<>>
    /\ model' = <<>>
    /\ UNCHANGED <<gvars, on_surface, rvars, pvars, plvars, scvars>>

\* Lithology(history)
LithologyInit(history) ==
    /\ s_event' = Lithology(history)
    /\ s_surface' = NoVertices
    /\ s_arg' = history
    /\ s_layers' = CallerList(history)
    /\ s_op' = "init"
    /\ s_mesh' = unbuilt
    /\ model_in' = <<>>
    /\ model' = <<>>
    /\ UNCHANGED <<gvars, on_surface, rvars, pvars, plvars, scvars>>

\* the single event after its realize: it holds the surface as the mask
\* left it
EventAfterRealize(event) ==
    IF IsSeries(event) \/ Raises(event) # Ok THEN event
    ELSE [event EXCEPT !.surface = SurfaceAfterRealize(event)]

\* the vertices of the Surface object itself after that realize
SurfaceAfter(event, vertices) ==
    IF IsSeries(event) \/ Raises(event) # Ok THEN vertices
    ELSE SurfaceAfterRealize([event EXCEPT !.surface = vertices])

\* s_event.realize(mesh, m): the array is updated in place and returned
RealizeCall(mesh, m) ==
    /\ s_op # "none"
    /\ s_mesh' = mesh
    /\ model_in' = m
    /\ model' = Realize(s_event, mesh, m, on_surface)
    /\ s_event' = EventAfterRealize(s_event)
    /\ s_surface' = SurfaceAfter(s_event, s_surface)
    /\ s_op' = "realize"
    /\ UNCHANGED <<s_arg, s_layers, gvars, on_surface, rvars, pvars, plvars, scvars>>

\* a single event realized once more, on the array its first call returned
RealizeAgain ==
    /\ s_op = "realize"
    /\ ~IsSeries(s_event)
    /\ model_in' = model
    /\ model' = Realize(s_event, s_mesh, model, on_surface)
    /\ s_event' = EventAfterRealize(s_event)
    /\ s_surface' = SurfaceAfter(s_event, s_surface)
    /\ s_op' = "realize_again"
    /\ UNCHANGED <<s_arg, s_layers, s_mesh, gvars, on_surface, rvars, pvars, plvars, scvars>>

\* the vertices a surface is given between two realizations
MovedVertices(event) ==
    IF event.kind = "Anomaly" THEN {plate_edge.vertices}
    ELSE {Flat(-20), dipping.vertices}

\* an assignment that reaches the Surface object only, the event keeping
\* what it read when it was first realized
SurfaceSetVerticesDetached(vertices) ==
    /\ s_op = "realize"
    /\ ~IsSeries(s_event)
    /\ vertices \in MovedVertices(s_event)
    /\ s_surface' = vertices
    /\ s_op' = "moved"
    /\ UNCHANGED <<s_event, s_arg, s_layers, s_mesh, model_in, model, gvars,
                   on_surface, rvars, pvars, plvars, scvars>>

\* surface.vertices = vertices on the surface of a realized event: the
\* event holds the Surface object and reads its vertices at every mask
SurfaceSetVertices(vertices) ==
    /\ s_op = "realize"
    /\ ~IsSeries(s_event)
    /\ vertices \in MovedVertices(s_event)
    /\ s_surface' = vertices
    /\ s_event' = [s_event EXCEPT !.surface = vertices]
    /\ s_op' = "moved"
    /\ UNCHANGED <<s_arg, s_layers, s_mesh, model_in, model, gvars,
                   on_surface, rvars, pvars, plvars, scvars>>

NextSeries ==
    \/ \E e \in LeafEvents : EventInit(e)
    \/ \E history \in SeriesHistories : SeriesInit(history)
    \/ \E history \in LayerLists : LithologyInit(history)
    \/ \E mesh \in Meshes : \E m \in InputModels(mesh) : RealizeCall(mesh, m)
    \/ RealizeAgain
    \/ \E vertices \in {Flat(-20), dipping.vertices, plate_edge.vertices} :
          SurfaceSetVertices(vertices)

SpecSeries == InitSeries /\ [][NextSeries]_vars

\* ---------------------------------------------------------------- Scenario
MeshError == [raised |-> "ValueError", message |-> "Mesh must have n_cells."]

\* the histories assigned to a Scenario, and the histories it is
\* constructed with, which may hold an event on a surface without vertices
ScenarioHistories == Histories
ScenarioEvents == GeologyEvents \cup {dep_void}
ConstructorHistories == SeqsUpTo(ScenarioEvents, MaxLen)
Backgrounds == {Num(0), Num(2)}
BuiltMeshes == {octree, coarse, unbuilt}

InitScenario ==
    /\ IdleGeology
    /\ IdleSeries
    /\ IdleScenario
    /\ IdleReplicate
    /\ IdleParams
    /\ IdlePlate
    /\ on_surface \in BOOLEAN

\* a setter that accepts every mesh
MeshSetterLax(mesh) == Ok

\* Scenario.mesh setter
MeshSetter(mesh) == IF mesh.n_cells = None THEN MeshError ELSE Ok

\* Scenario.__init__: the mesh setter runs first, then Geology(history);
\* the first of them that raises ends the construction
ScenarioInitResult(mesh, history) ==
    IF MeshSetter(mesh) # Ok THEN MeshSetter(mesh) ELSE ValidateHistory(history)

\* A Scenario is consumed by one geologize: the attribute assignments
\* happen between its construction and that call, and the next Scenario is
\* constructed when this one is consumed.
Assignable == scenario.live /\ sc_op # "geologize"

\* Scenario(workspace, mesh, background, history, name) on a newly built
\* mesh; a constructor that raises leaves no Scenario
ScenarioInit(mesh, background, history, name) ==
    /\ ~Assignable
    /\ sc_op' = "init"
    /\ sc_mesh' = mesh
    /\ sc_array' = <<>>
    /\ sc_result' = ScenarioInitResult(mesh, history)
    /\ IF ScenarioInitResult(mesh, history) = Ok
       THEN /\ scenario' = [live |-> TRUE, workspace |-> "ws", mesh |-> mesh,
                            background |-> background,
                            history |-> [geology |-> TRUE, events |-> history],
                            name |-> name]
            /\ mesh_data' = <<>>
            /\ returned' = <<>>
       ELSE /\ scenario' = NoScenario
            /\ mesh_data' = <<>>
            /\ returned' = <<>>
    /\ UNCHANGED <<gvars, on_surface, rvars, pvars, plvars, svars>>

\* scenario.history = events: history is a plain attribute of Series, the
\* assignment stores the sequence as it is
ScenarioSetHistory(events) ==
    /\ Assignable
    /\ sc_op' = "set_history"
    /\ sc_result' = Ok
    /\ scenario' = [scenario EXCEPT !.history = [geology |-> FALSE, events |-> events]]
    /\ UNCHANGED <<sc_mesh, sc_array, mesh_data, returned, gvars, on_surface, rvars, pvars, plvars, svars>>

\* scenario.history = Geology(events)
ScenarioSetGeology(events) ==
    /\ Assignable
    /\ sc_op' = "set_geology"
    /\ sc_result' = ValidateHistory(events)
    /\ scenario' = IF ValidateHistory(events) = Ok
                   THEN [scenario EXCEPT !.history = [geology |-> TRUE, events |-> events]]
                   ELSE scenario
    /\ UNCHANGED <<sc_mesh, sc_array, mesh_data, returned, gvars, on_surface, rvars, pvars, plvars, svars>>

\* scenario.mesh = mesh, a newly built mesh
ScenarioSetMesh(mesh) ==
    /\ Assignable
    /\ sc_op' = "set_mesh"
    /\ sc_mesh' = mesh
    /\ sc_result' = MeshSetter(mesh)
    /\ scenario' = IF MeshSetter(mesh) = Ok
                   THEN [scenario EXCEPT !.mesh = mesh]
                   ELSE scenario
    /\ UNCHANGED <<sc_array, mesh_data, returned, gvars, on_surface, rvars, pvars, plvars, svars>>

\* scenario.background = background
ScenarioSetBackground(background) ==
    /\ Assignable
    /\ sc_op' = "set_background"
    /\ sc_result' = Ok
    /\ scenario' = [scenario EXCEPT !.background = background]
    /\ UNCHANGED <<sc_mesh, sc_array, mesh_data, returned, gvars, on_surface, rvars, pvars, plvars, svars>>

\* the array geologize builds: np.ones(self.mesh.n_cells) * self.background
Background(sc) == Uniform(sc.mesh, sc.background)

\* the array geologize computes:
\* super().realize(self.mesh, np.ones(self.mesh.n_cells) * self.background) ** -1.0
GeologyValues(sc, tie) ==
    LET realized == Fold(sc.history.events, 1, sc.mesh, Background(sc), tie)
    IN  [i \in 1..Len(realized) |-> Reciprocal(realized[i])]

\* Scenario.geologize: what realize raises leaves geologize before add_data
Geologize ==
    /\ Assignable
    /\ sc_op' = "geologize"
    /\ IF scenario.mesh.n_cells = None
       THEN /\ sc_result' = MeshError
            /\ UNCHANGED <<sc_array, mesh_data, returned>>
       ELSE /\ sc_array' = Fold(scenario.history.events, 1, scenario.mesh,
                                Background(scenario), on_surface)
            /\ sc_result' = FirstError(scenario.history.events, 1)
            /\ IF FirstError(scenario.history.events, 1) # Ok
               THEN UNCHANGED <<mesh_data, returned>>
               ELSE /\ mesh_data' = Append(mesh_data,
                                           [name |-> scenario.name,
                                            values |-> GeologyValues(scenario, on_surface)])
                    /\ returned' = GeologyValues(scenario, on_surface)
    /\ UNCHANGED <<scenario, sc_mesh, gvars, on_surface, rvars, pvars, plvars, svars>>

NextScenario ==
    \/ \E mesh \in {octree, unbuilt}, background \in Backgrounds,
          history \in ConstructorHistories :
            ScenarioInit(mesh, background, history, "model")
    \/ \E events \in ScenarioHistories : ScenarioSetHistory(events)
    \/ \E events \in ScenarioHistories : ScenarioSetGeology(events)
    \/ \E mesh \in BuiltMeshes : ScenarioSetMesh(mesh)
    \/ \E background \in Backgrounds : ScenarioSetBackground(background)
    \/ Geologize

SpecScenario == InitScenario /\ [][NextScenario]_vars

\* --------------------------------------------------------------- replicate
\* lengths are in half metres here, so that spacing / 2 is a whole number

\* azimuth_to_unit_vector: (sin az, cos az, 0), at the quarter turns
AzimuthToUnitVector(azimuth) ==
    CASE azimuth % 360 = 0   -> <<0, 1, 0>>
      [] azimuth % 360 = 90  -> <<1, 0, 0>>
      [] azimuth % 360 = 180 -> <<0, -1, 0>>
      [] azimuth % 360 = 270 -> <<-1, 0, 0>>

\* range(n) and np.arange(n) are empty for n <= 0
Range(n) == 1..(IF n > 0 THEN n ELSE 0)

\* offsets = (np.arange(number) * spacing) - ((number - 1) * spacing / 2),
\* spacing in metres, the offsets in half metres; offsets[i] of the code is
\* Offsets(number, spacing)[i + 1]
Offsets(number, spacing) ==
    [i \in Range(number) |-> 2 * (i - 1) * spacing - (number - 1) * spacing]

\* vertices += unit * offset
Displace(vertices, unit, offset) ==
    [v \in 1..Len(vertices) |->
        [c \in 1..3 |-> vertices[v][c] + unit[c] * offset]]

\* a list of number copies, the object handed in not among them
CopiesOnly(surface, number) ==
    [k \in Range(number) |->
        [ref |-> "copy", name |-> surface.name, vertices |-> surface.vertices]]

\* surfaces = [surface.copy() for i in range(number - 1)] + [surface]: the
\* last element is the object the caller handed in
CopiesAndInput(surface, number) ==
    [k \in 1..(Cardinality(Range(number - 1)) + 1) |->
        [ref |-> IF k \in Range(number - 1) THEN "copy" ELSE "input",
         name |-> surface.name, vertices |-> surface.vertices]]

RECURSIVE ReplicateLoop(_, _, _, _, _)

\* a loop that leaves the name of a single plate alone
ReplicateLoopKeepsSingle(surfaces, i, number, spacing, azimuth) ==
    IF i \notin Range(number) THEN surfaces
    ELSE ReplicateLoop(
            [surfaces EXCEPT
                ![i].vertices = Displace(surfaces[i].vertices,
                                         AzimuthToUnitVector(azimuth),
                                         Offsets(number, spacing)[i]),
                ![i].name = IF number = 1 THEN @
                            ELSE [base |-> surfaces[Len(surfaces)].name.base,
                                  suffixes |-> Append(surfaces[Len(surfaces)].name.suffixes, i)]],
            i + 1, number, spacing, azimuth)

\* the loop of replicate from i on (i of the code plus one); surface.name is
\* the name, at that iteration, of the object handed in, the last of the list
ReplicateLoop(surfaces, i, number, spacing, azimuth) ==
    IF i \notin Range(number) THEN surfaces
    ELSE ReplicateLoop(
            [surfaces EXCEPT
                ![i].vertices = Displace(surfaces[i].vertices,
                                         AzimuthToUnitVector(azimuth),
                                         Offsets(number, spacing)[i]),
                ![i].name = [base |-> surfaces[Len(surfaces)].name.base,
                             suffixes |-> Append(surfaces[Len(surfaces)].name.suffixes, i)]],
            i + 1, number, spacing, azimuth)

\* replicate(surface, number, spacing, azimuth)
ReplicateSurfaces(surface, number, spacing, azimuth) ==
    ReplicateLoop(CopiesAndInput(surface, number), 1, number, spacing, azimuth)

\* the surface of the tests, a square around the origin, and a plate away
\* from the origin
test_surface ==
    [name |-> Name("test"),
     vertices |-> << <<-2, -2, 0>>, <<2, -2, 0>>, <<2, 2, 0>>, <<-2, 2, 0>> >>]
plate_surface ==
    [name |-> Name("plate"),
     vertices |-> << <<20, 8, -12>>, <<24, 8, -16>> >>]
Surfaces == {test_surface, plate_surface}
Spacings == {0, 5, 10}
Azimuths == {0, 90, 180, 270, 360}
Numbers == 0..MaxNumber

InitReplicate ==
    /\ IdleGeology
    /\ IdleSeries
    /\ IdleScenario
    /\ IdleReplicate
    /\ IdleParams
    /\ IdlePlate
    /\ on_surface = FALSE

\* Surface.create(workspace, name=..., vertices=...)
SurfaceCreate(surface) ==
    /\ r_surface' = surface
    /\ r_args' = NoArgs
    /\ r_out' = <<>>
    /\ r_op' = "create"
    /\ UNCHANGED <<gvars, on_surface, svars, scvars, pvars, plvars>>

\* replicate(r_surface, number, spacing, azimuth) on a surface as created
Replicate(number, spacing, azimuth) ==
    /\ r_op = "create"
    /\ r_args' = [surface |-> r_surface, number |-> number,
                  spacing |-> spacing, azimuth |-> azimuth]
    /\ r_out' = ReplicateSurfaces(r_surface, number, spacing, azimuth)
    /\ r_surface' =
          LET out == ReplicateSurfaces(r_surface, number, spacing, azimuth)
              input == {k \in 1..Len(out) : out[k].ref = "input"}
          IN  IF input = {} THEN r_surface
              ELSE [name |-> out[CHOOSE k \in input : TRUE].name,
                    vertices |-> out[CHOOSE k \in input : TRUE].vertices]
    /\ r_op' = "replicate"
    /\ UNCHANGED <<gvars, on_surface, svars, scvars, pvars, plvars>>

NextReplicate ==
    \/ \E surface \in Surfaces : SurfaceCreate(surface)
    \/ \E number \in Numbers, spacing \in Spacings, azimuth \in Azimuths :
          Replicate(number, spacing, azimuth)

SpecReplicate == InitReplicate /\ [][NextReplicate]_vars

\* -------------------------------------------------------------- PlateParams
\* lengths are in half metres here as well

\* a validator that hands on what it was given
NoneToDefaultKeeps(value, default) == value

\* none_to_default: value or cls.model_fields[...].default, None and the
\* empty string are both false
NoneToDefault(value, default) ==
    IF value = Unset \/ value = "" THEN default ELSE value

\* a validator that leaves the spacing of a single plate as supplied
SinglePlateKeeps(params) == params

\* single_plate: if self.number == 1: self.spacing = 0.0
SinglePlate(params) ==
    IF params.number = 1 THEN [params EXCEPT !.spacing = 0] ELSE params

\* PlateParams(**args): the field validators, then the model validator
PlateParamsOf(args) ==
    SinglePlate([args EXCEPT
                    !.live = TRUE,
                    !.reference_type = NoneToDefault(args.reference_type, "mean")])

\* 2 * sin(dip) at the angles where it is a whole number
TwiceSin(dip) ==
    CASE dip = 0 -> 0
      [] dip = 30 -> 1
      [] dip = 90 -> 2

\* halfplate: 0.5 * self.dip_length * np.sin(np.deg2rad(self.dip))
Halfplate(params) == (params.dip_length * TwiceSin(params.dip)) \div 4

RECURSIVE SumSeq(_)
SumSeq(xs) == IF Len(xs) = 0 THEN 0 ELSE xs[1] + SumSeq(Tail(xs))
Column(vertices, c) == [v \in 1..Len(vertices) |-> vertices[v][c]]

\* the methods of an array that getattr(array, name)() finds, of which
\* mean, min, max and sum are taken here
ArrayMethods == {"mean", "min", "max", "sum"}
ArrayMethod(xs, name) ==
    CASE name = "mean" -> SumSeq(xs) \div Len(xs)
      [] name = "min" -> CHOOSE x \in {xs[i] : i \in 1..Len(xs)} :
                            \A i \in 1..Len(xs) : x <= xs[i]
      [] name = "max" -> CHOOSE x \in {xs[i] : i \in 1..Len(xs)} :
                            \A i \in 1..Len(xs) : x >= xs[i]
      [] name = "sum" -> SumSeq(xs)

TopographyError ==
    [raised |-> "ValueError", message |-> "Topography object has no vertices."]
AttributeError ==
    [raised |-> "AttributeError",
     message |-> "'numpy.ndarray' object has no attribute"]

\* _get_xy
GetXy(params, survey) ==
    IF params.relative_locations
    THEN <<SumSeq(Column(survey, 1)) \div Len(survey) + params.easting,
           SumSeq(Column(survey, 2)) \div Len(survey) + params.northing>>
    ELSE <<params.easting, params.northing>>

\* what _get_z raises
GetZRaises(params, surface) ==
    IF surface = NoVertices THEN TopographyError
    ELSE IF params.relative_locations /\ params.reference_type \notin ArrayMethods
         THEN AttributeError
    ELSE Ok

\* _get_z, when it does not raise
GetZ(params, surface, offset) ==
    IF params.relative_locations
    THEN ArrayMethod(Column(surface, 3), params.reference_type)
            + offset + params.elevation - Halfplate(params)
    ELSE params.elevation

\* the survey of test_plate_params and a survey of two stations
survey_point == << <<-20, -20, 0>> >>
survey_line == << <<10, 6, 0>>, <<30, 2, 4>> >>
Surveys == {survey_point, survey_line}
\* reference surfaces: the flat square of the tests, a sloping one, and one
\* without vertices
sloping_surface ==
    [name |-> Name("slope"),
     vertices |-> << <<-2, -2, -8>>, <<2, -2, 0>>, <<2, 2, 12>>, <<-2, 2, 4>> >>]
ReferenceSurfaces == {test_surface.vertices, sloping_surface.vertices, NoVertices}
DepthOffsets == {0, -6}
ReferenceTypes == {Unset, "", "mean", "min", "max", "median", "sum"}
Dips == {30, 90}

InitParams ==
    /\ IdleGeology
    /\ IdleSeries
    /\ IdleScenario
    /\ IdleReplicate
    /\ IdleParams
    /\ IdlePlate
    /\ on_surface = FALSE

\* PlateParams(number=..., spacing=..., ...)
PlateParamsInit(args) ==
    /\ p_args' = args
    /\ p_params' = PlateParamsOf(args)
    /\ p_call' = NoCall
    /\ p_center' = <<>>
    /\ p_result' = Ok
    /\ p_op' = "init"
    /\ UNCHANGED <<gvars, on_surface, svars, scvars, rvars, plvars>>

\* p_params.center(survey, surface, depth_offset)
Center(survey, surface, depth_offset) ==
    /\ p_params.live
    /\ p_call' = [survey |-> survey, surface |-> surface,
                  depth_offset |-> depth_offset]
    /\ p_result' = GetZRaises(p_params, surface)
    /\ p_center' = IF GetZRaises(p_params, surface) # Ok THEN <<>>
                   ELSE GetXy(p_params, survey)
                            \o <<GetZ(p_params, surface, depth_offset)>>
    /\ p_op' = "center"
    /\ UNCHANGED <<p_args, p_params, gvars, on_surface, svars, scvars, rvars, plvars>>

ParamsArgs ==
    [live : {FALSE}, number : 0..MaxNumber, spacing : {0, 10},
     relative_locations : BOOLEAN, easting : {20}, northing : {-12},
     elevation : {200}, dip_length : {800}, dip : Dips,
     reference_type : ReferenceTypes]

NextParams ==
    \/ \E args \in ParamsArgs : PlateParamsInit(args)
    \/ \E survey \in Surveys, surface \in ReferenceSurfaces,
          depth_offset \in DepthOffsets : Center(survey, surface, depth_offset)

SpecParams == InitParams /\ [][NextParams]_vars

\* -------------------------------------------------------------------- Plate
\* coordinates are in half metres, the lengths of the params in metres, so
\* that center - length / 2.0 is center - length

\* a pattern whose last triangle is wound the other way
TrianglesLastFlipped ==
    << <<0, 2, 1>>, <<1, 2, 3>>, <<0, 1, 4>>, <<4, 1, 5>>, <<1, 3, 5>>,
       <<5, 3, 7>>, <<2, 6, 3>>, <<3, 6, 7>>, <<0, 4, 2>>, <<2, 4, 6>>,
       <<4, 5, 6>>, <<6, 7, 5>> >>

\* Plate.triangles, the indices counted from 0 as in the code
Triangles ==
    << <<0, 2, 1>>, <<1, 2, 3>>, <<0, 1, 4>>, <<4, 1, 5>>, <<1, 3, 5>>,
       <<5, 3, 7>>, <<2, 6, 3>>, <<3, 6, 7>>, <<0, 4, 2>>, <<2, 4, 6>>,
       <<4, 5, 6>>, <<6, 5, 7>> >>

\* a prism whose strike length is laid along y and dip length along x
PrismSwapped(center, params) ==
    LET u_1 == center[1] - params.dip_length
        u_2 == center[1] + params.dip_length
        v_1 == center[2] - params.strike_length
        v_2 == center[2] + params.strike_length
        w_1 == center[3] - params.width
        w_2 == center[3] + params.width
    IN  << <<u_1, v_1, w_1>>, <<u_2, v_1, w_1>>, <<u_1, v_2, w_1>>,
           <<u_2, v_2, w_1>>, <<u_1, v_1, w_2>>, <<u_2, v_1, w_2>>,
           <<u_1, v_2, w_2>>, <<u_2, v_2, w_2>> >>

\* the array of Plate.vertices before rotation; vertex k of the code is
\* element k + 1
Prism(center, params) ==
    LET u_1 == center[1] - params.strike_length
        u_2 == center[1] + params.strike_length
        v_1 == center[2] - params.dip_length
        v_2 == center[2] + params.dip_length
        w_1 == center[3] - params.width
        w_2 == center[3] + params.width
    IN  << <<u_1, v_1, w_1>>, <<u_2, v_1, w_1>>, <<u_1, v_2, w_1>>,
           <<u_2, v_2, w_1>>, <<u_1, v_1, w_2>>, <<u_2, v_1, w_2>>,
           <<u_1, v_2, w_2>>, <<u_2, v_2, w_2>> >>

\* sine and cosine at the quarter turns
Sin(angle) ==
    CASE angle % 360 = 0 -> 0 [] angle % 360 = 90 -> 1
      [] angle % 360 = 180 -> 0 [] angle % 360 = 270 -> -1
Cos(angle) ==
    CASE angle % 360 = 0 -> 1 [] angle % 360 = 90 -> 0
      [] angle % 360 = 180 -> -1 [] angle % 360 = 270 -> 0

\* rotate_xyz(xyz, center, theta, phi) of geoapps_utils: about the centre,
\* counterclockwise by phi around the x axis, then by theta around the z axis
RotateXyz(xyz, center, theta, phi) ==
    [k \in 1..Len(xyz) |->
        LET x == xyz[k][1] - center[1]
            y == xyz[k][2] - center[2]
            z == xyz[k][3] - center[3]
            y1 == y * Cos(phi) - z * Sin(phi)
            z1 == y * Sin(phi) + z * Cos(phi)
        IN  <<x * Cos(theta) - y1 * Sin(theta) + center[1],
              x * Sin(theta) + y1 * Cos(theta) + center[2],
              z1 + center[3]>>]

\* np.mean(rotated_vertices[4:, :], axis=0)
MeanFrom(xyz, first) ==
    [c \in 1..3 |->
        SumSeq([k \in 1..(Len(xyz) - first + 1) |-> xyz[k + first - 1][c]])
            \div (Len(xyz) - first + 1)]

\* Plate._rotate: the array returned and the centre it leaves on the Plate
Rotate(plate, vertices) ==
    LET rotated == RotateXyz(vertices, plate.center,
                             -1 * plate.params.dip_direction,
                             -1 * plate.params.dip)
        offset == [c \in 1..3 |-> MeanFrom(rotated, 5)[c] - plate.center[c]]
    IN  IF plate.params.reference = "top"
        THEN [vertices |-> [k \in 1..Len(rotated) |->
                               [c \in 1..3 |-> rotated[k][c] - offset[c]]],
              center |-> [c \in 1..3 |-> plate.center[c] - offset[c]]]
        ELSE [vertices |-> rotated, center |-> plate.center]

\* Plate.vertices
Vertices(plate) == Rotate(plate, Prism(plate.center, plate.params))

PlateParamsSet ==
    [strike_length : {6, 10}, dip_length : {4}, width : {2, 8},
     dip : {0, 90}, dip_direction : {0, 90, 180},
     reference : {"center", "top"}]
Centers == {<<0, 0, 0>>, <<20, -12, 8>>}

InitPlate ==
    /\ IdleGeology
    /\ IdleSeries
    /\ IdleScenario
    /\ IdleReplicate
    /\ IdleParams
    /\ IdlePlate
    /\ on_surface = FALSE

\* Plate(workspace, params, center_x, center_y, center_z)
PlateInit(params, center) ==
    /\ pl_plate' = [live |-> TRUE, params |-> params, center |-> center,
                    given |-> center]
    /\ pl_vertices' = <<>>
    /\ pl_triangles' = <<>>
    /\ pl_reads' = 0
    /\ pl_op' = "init"
    /\ UNCHANGED <<gvars, on_surface, svars, scvars, rvars, pvars>>

\* a read of plate.vertices
ReadVertices ==
    /\ pl_plate.live
    /\ pl_reads < MaxReads
    /\ pl_vertices' = Vertices(pl_plate).vertices
    /\ pl_plate' = [pl_plate EXCEPT !.center = Vertices(pl_plate).center]
    /\ pl_reads' = pl_reads + 1
    /\ pl_op' = "vertices"
    /\ UNCHANGED <<pl_triangles, gvars, on_surface, svars, scvars, rvars, pvars>>

\* a read of plate.triangles
ReadTriangles ==
    /\ pl_plate.live
    /\ pl_op # "triangles"
    /\ pl_triangles' = Triangles
    /\ pl_op' = "triangles"
    /\ UNCHANGED <<pl_plate, pl_vertices, pl_reads, gvars, on_surface, svars,
                   scvars, rvars, pvars>>

NextPlate ==
    \/ \E params \in PlateParamsSet, center \in Centers : PlateInit(params, center)
    \/ ReadVertices
    \/ ReadTriangles

SpecPlate == InitPlate /\ [][NextPlate]_vars

\* --------------------------------------------------- properties of Geology
Last(s) == s[Len(s)]
HasOverburden(s) == \E i \in 1..Len(s) : IsOverburden(s[i])
\* the Overburden rule as the code evaluates it on a sequence it can index
PassesOverburdenCheck(s) ==
    ~HasOverburden(s) \/ (Len(s) >= 2 /\ IsOverburden(s[Len(s) - 1]))
Called == g_op # "none"

\* C1: every accepted event sequence ends with an Erosion, and a sequence
\* that has a last element, passes the Overburden check and does not end
\* with an Erosion is rejected with the terminal-erosion message.
C1_LastIsErosion ==
    /\ geology.live =>
          Len(geology.history) >= 1 /\ IsErosion(Last(geology.history))
    /\ (Called /\ g_result = Ok) =>
          Len(g_events) >= 1 /\ IsErosion(Last(g_events))
    /\ (Called /\ Len(g_events) >= 1 /\ PassesOverburdenCheck(g_events)
           /\ ~IsErosion(Last(g_events))) =>
          g_result = ErosionViolation

C1_Witness ==
    /\ Called
    /\ g_events = <<overburden, lithology>>
    /\ g_result = ErosionViolation
    /\ geology.live

\* C2: in an accepted sequence an Overburden stands only at the
\* second-to-last position.
C2_OverburdenOnlySecondLast ==
    geology.live =>
        \A i \in 1..Len(geology.history) :
            IsOverburden(geology.history[i]) => i = Len(geology.history) - 1

\* C3: constructing a Geology succeeds or raises GeologyViolationError with
\* one of the two fixed messages, for every finite sequence.
C3_OnlyGeologyViolation ==
    g_op = "init" => g_result \in {Ok, OverburdenViolation, ErosionViolation}

\* C4: the Overburden placement check runs before the terminal-erosion
\* check: a sequence breaking both rules is rejected with the Overburden
\* message, one breaking only the terminal rule with the erosion message,
\* and [Lithology, Overburden, Erosion] is accepted.
C4_OverburdenCheckedFirst ==
    Called =>
      /\ (Len(g_events) >= 2 /\ HasOverburden(g_events)
            /\ ~IsOverburden(g_events[Len(g_events) - 1])) =>
            g_result = OverburdenViolation
      /\ g_events = <<lithology, erosion, overburden>> =>
            g_result = OverburdenViolation
      /\ g_events = <<overburden, lithology>> => g_result = ErosionViolation
      /\ g_events = <<lithology, overburden, erosion>> =>
            g_result = Ok /\ geology = [live |-> TRUE, history |-> g_events]

C4_Witness ==
    /\ Called
    /\ g_events = <<lithology, erosion, overburden>>
    /\ g_result = OverburdenViolation

\* C5: after any constructions and assignments to Geology.history, the
\* held history ends with an Erosion and holds an Overburden only at the
\* second-to-last position.
C5_HeldHistoryKeepsBothRules ==
    geology.live =>
        /\ Len(geology.history) >= 1
        /\ IsErosion(Last(geology.history))
        /\ \A i \in 1..Len(geology.history) :
              IsOverburden(geology.history[i]) => i + 1 = Len(geology.history)

\* ---------------------------------------------------- properties of Series
\* the events of a history in order, nested series expanded in place
RECURSIVE Flatten(_)
Flatten(history) ==
    IF Len(history) = 0 THEN <<>>
    ELSE LET head == history[1]
         IN  (IF IsSeries(head) THEN Flatten(head.history) ELSE <<head>>)
             \o Flatten(Tail(history))

\* the centroid of cell i is below elevation field zs
CellBelow(mesh, i, zs) ==
    LET col == mesh.centroids[i][1]
        z   == mesh.centroids[i][2]
    IN  z < zs[col] \/ (on_surface /\ z = zs[col])

\* the centroid of cell i is strictly inside the box with these corners
StrictlyInside(mesh, i, corners) ==
    LET x == mesh.centroids[i][1]
        z == mesh.centroids[i][2]
    IN  /\ \E a, b \in 1..Len(corners) : corners[a][1] < x /\ x < corners[b][1]
        /\ \E a, b \in 1..Len(corners) : corners[a][2] < z /\ z < corners[b][2]

\* cell i is in the region the event fills
InFillRegion(e, mesh, i) ==
    CASE e.kind = "Deposition" -> CellBelow(mesh, i, e.surface)
      [] e.kind = "Overburden" ->
            ~CellBelow(mesh, i, [c \in 1..Len(e.surface) |-> e.surface[c] - e.thickness])
      [] e.kind = "Erosion" -> ~CellBelow(mesh, i, e.surface)
      [] e.kind = "Anomaly" -> StrictlyInside(mesh, i, e.surface)

SetMax(S) == CHOOSE x \in S : \A y \in S : y <= x
SetMin(S) == CHOOSE x \in S : \A y \in S : x <= y
Realized == s_op = "realize"

\* C7: Series.realize is last-write-wins in sequence order, nested series
\* expanded in place: each cell ends with the value of the last event whose
\* fill region contains it, or keeps its input value when none does.
C7_LastWriteWins ==
    (Realized /\ IsSeries(s_event)) =>
        LET flat == Flatten(s_event.history)
        IN  /\ Len(model) = Len(model_in)
            /\ \A i \in 1..Len(model_in) :
                 LET writers == {j \in 1..Len(flat) : InFillRegion(flat[j], s_mesh, i)}
                 IN  model[i] = IF writers = {} THEN model_in[i]
                                ELSE flat[SetMax(writers)].value

C7_Witness ==
    /\ Realized
    /\ s_event = Series(<<lithology, overburden, erosion>>)
    /\ s_mesh = octree
    /\ model_in = Uniform(octree, Num(0))
    /\ model[1] = NaN
    /\ model[2] = Num(10)
    /\ model[3] = Num(0)
    /\ model[6] = Num(3)

\* the list gives the bottom unit first: at every column no surface is
\* higher than the surfaces after it
BottomFirst(ls) ==
    \A i, j \in 1..Len(ls) :
        i < j => \A c \in 1..Len(ls[i].surface) : ls[i].surface[c] <= ls[j].surface[c]

\* C9: Lithology holds the reverse of its argument, leaves the caller's list
\* as it was and realizes in the reversed order; with the bottom unit first
\* every cell ends with the value of the deepest layer surface it lies
\* below, and a cell above all layer surfaces keeps its input value.
C9_LithologyReversedOnce ==
    (s_op # "none" /\ s_event.kind = "Lithology") =>
        /\ s_event.history = Reverse(s_arg)
        /\ s_layers = s_arg
        /\ Realized =>
             /\ \A i \in 1..Len(model_in) :
                  LET under == {j \in 1..Len(s_arg) :
                                   CellBelow(s_mesh, i, s_arg[j].surface)}
                  IN  model[i] = IF under = {} THEN model_in[i]
                                 ELSE s_arg[SetMin(under)].value
             /\ BottomFirst(s_arg) =>
                  \A i \in 1..Len(model_in) :
                     LET col == s_mesh.centroids[i][1]
                         under == {j \in 1..Len(s_arg) :
                                      CellBelow(s_mesh, i, s_arg[j].surface)}
                     IN  IF under = {} THEN model[i] = model_in[i]
                         ELSE \E j \in under :
                                /\ \A k \in under :
                                     s_arg[j].surface[col] <= s_arg[k].surface[col]
                                /\ model[i] = s_arg[j].value

C9_Witness ==
    /\ Realized
    /\ s_event.kind = "Lithology"
    /\ s_arg = layers
    /\ s_mesh = octree
    /\ model_in = Uniform(octree, Num(0))
    /\ model[2] = Num(0)
    /\ model[4] = Num(1)
    /\ model[5] = Num(2)
    /\ model[6] = Num(3)

\* C10: Deposition.realize sets to its value exactly the cells below its
\* unshifted surface and leaves every other cell as it was.
C10_DepositionFillsBelow ==
    (Realized /\ s_event.kind = "Deposition") =>
        /\ Len(model) = Len(model_in)
        /\ \A i \in 1..Len(model_in) :
             model[i] = IF CellBelow(s_mesh, i, s_event.surface)
                        THEN s_event.value ELSE model_in[i]

C10_Witness ==
    /\ Realized
    /\ s_event = dep2
    /\ s_mesh = octree
    /\ model_in = Uniform(octree, Num(1))
    /\ model[4] = Num(1)
    /\ model[5] = Num(2)

\* C11 as stated: Overburden.realize changes exactly the cells of the slab
\* between (topography - thickness) and the topography, and leaves the
\* cells below the slab and the cells above the topography unchanged.
C11_OverburdenFillsSlabOnly ==
    (Realized /\ s_event.kind = "Overburden") =>
        \A i \in 1..Len(model_in) :
            LET base == [c \in 1..Len(s_event.surface) |->
                            s_event.surface[c] - s_event.thickness]
                inSlab == /\ ~CellBelow(s_mesh, i, base)
                          /\ CellBelow(s_mesh, i, s_event.surface)
            IN  model[i] = IF inSlab THEN s_event.value ELSE model_in[i]

\* C11 amended: Overburden.realize sets to its value every cell that is
\* not below (topography - thickness), the cells above the topography
\* included, and leaves every cell below that shifted surface unchanged.
C11_OverburdenFillsAboveBase ==
    (Realized /\ s_event.kind = "Overburden") =>
        /\ Len(model) = Len(model_in)
        /\ \A i \in 1..Len(model_in) :
             LET base == [c \in 1..Len(s_event.surface) |->
                             s_event.surface[c] - s_event.thickness]
             IN  model[i] = IF CellBelow(s_mesh, i, base)
                            THEN model_in[i] ELSE s_event.value

C11_Witness ==
    /\ Realized
    /\ s_event = overburden
    /\ s_mesh = octree
    /\ model_in = Uniform(octree, Num(1))
    /\ model[1] = Num(10)
    /\ model[2] = Num(10)
    /\ model[3] = Num(1)

IsNaN(v) == v = NaN

\* C12: Erosion.realize sets to NaN exactly the cells that are not below
\* its surface and leaves every cell below the surface unchanged, so that
\* finite values below the surface stay finite.
C12_ErosionCutsAbove ==
    (Realized /\ s_event.kind = "Erosion") =>
        /\ Len(model) = Len(model_in)
        /\ \A i \in 1..Len(model_in) :
             IF CellBelow(s_mesh, i, s_event.surface)
             THEN model[i] = model_in[i] /\ (~IsNaN(model_in[i]) => ~IsNaN(model[i]))
             ELSE IsNaN(model[i])

C12_Witness ==
    /\ Realized
    /\ s_event = erosion
    /\ s_mesh = octree
    /\ model_in = Uniform(octree, Num(1))
    /\ model[1] = NaN
    /\ model[2] = Num(1)
    /\ model[6] = Num(1)

NaNCells(m) == {i \in 1..Len(m) : IsNaN(m[i])}

\* C13: realizing the same Erosion a second time, on the array the first
\* realization returned, changes nothing: same array, same NaN cells.
C13_ErosionIdempotent ==
    (s_op = "realize_again" /\ s_event.kind = "Erosion") =>
        /\ model = model_in
        /\ NaNCells(model) = NaNCells(model_in)

C13_Witness ==
    /\ s_op = "realize_again"
    /\ s_event = erosion
    /\ s_mesh = octree
    /\ model[1] = NaN
    /\ model[2] = Num(7)
    /\ model[3] = NaN
    /\ model[4] = Num(7)

\* C24: no mask is cached: every realize of a single event fills according
\* to the vertices its surface has at that call and the mesh it is given,
\* also when the surface or the mesh was changed after an earlier realize
\* of the same event.
C24_MaskRecomputed ==
    (Realized /\ ~IsSeries(s_event)) =>
        /\ Len(model) = s_mesh.n_cells
        /\ \A i \in 1..Len(model_in) :
             model[i] = IF InFillRegion([s_event EXCEPT !.surface = s_surface],
                                        s_mesh, i)
                        THEN s_event.value ELSE model_in[i]

\* a Deposition built on layer1 (-2 m), realized, its surface then moved
\* to -10 m, realized again on another mesh
C24_Witness ==
    /\ Realized
    /\ s_event.kind = "Deposition"
    /\ s_event.value = Num(1)
    /\ s_surface = Flat(-20)
    /\ s_mesh = octree
    /\ model_in = Uniform(octree, Num(0))
    /\ model[4] = Num(0)
    /\ model[5] = Num(0)
    /\ model[6] = Num(1)

\* C29: Boundary.mask, with any offset, leaves the vertices of its surface
\* as they were, so the realize of a single event does; and in a series
\* that ends with an Erosion on the topography after one or more
\* Overburdens on that same surface, the Erosion cuts at the unshifted
\* elevation: every cell above the topography is NaN and the cells of the
\* slab below it hold the Overburden's value.
C29_MaskLeavesSurface ==
    /\ [](( /\ Realized
            /\ IsSeries(s_event)
            /\ Len(s_event.history) >= 2
            /\ Last(s_event.history) = erosion
            /\ s_event.history[Len(s_event.history) - 1] = overburden) =>
              \A i \in 1..Len(model) :
                 LET col == s_mesh.centroids[i][1]
                     z == s_mesh.centroids[i][2]
                 IN  /\ z > topography.vertices[col] => model[i] = NaN
                     /\ ( /\ z < topography.vertices[col]
                          /\ z > topography.vertices[col] - overburden.thickness) =>
                            model[i] = overburden.value)
    /\ [][(s_op' \in {"realize", "realize_again"} /\ s_op # "none") =>
             s_surface' = s_surface]_vars

C29_Witness ==
    /\ Realized
    /\ s_event = Series(<<overburden, overburden, erosion>>)
    /\ s_mesh = octree
    /\ model_in = Uniform(octree, Num(1))
    /\ model[1] = NaN
    /\ model[2] = Num(10)
    /\ model[3] = Num(1)

\* C14: Anomaly.realize sets to its value exactly the cells whose centroid
\* is strictly inside the closed surface; cells on the surface and cells
\* outside keep their value.
C14_AnomalyFillsStrictlyInside ==
    (Realized /\ s_event.kind = "Anomaly") =>
        /\ Len(model) = Len(model_in)
        /\ \A i \in 1..Len(model_in) :
             model[i] = IF StrictlyInside(s_mesh, i, s_event.surface)
                        THEN s_event.value ELSE model_in[i]

C14_Witness ==
    /\ Realized
    /\ s_event = anomaly
    /\ s_mesh = octree
    /\ model_in = Uniform(octree, Num(1))
    /\ model[3] = Num(1)
    /\ model[4] = Num(8)
    /\ model[5] = Num(1)
    /\ model[6] = Num(1)
    /\ model[7] = Num(8)

\* ------------------------------------------------- properties of replicate
Replicated == r_op = "replicate"

\* offset_i = i*spacing - (number-1)*spacing/2 for the 0-based i, in half
\* metres
ClaimedOffset(i, number, spacing) == 2 * i * spacing - (number - 1) * spacing

\* the horizontal unit vector of an azimuth: 0 -> +y, 90 -> +x, 180 -> -y,
\* 270 -> -x
ClaimedUnit(azimuth) ==
    [a \in {0, 90, 180, 270} |->
        <<(IF a = 90 THEN 1 ELSE IF a = 270 THEN -1 ELSE 0),
          (IF a = 0 THEN 1 ELSE IF a = 180 THEN -1 ELSE 0),
          0>>][azimuth % 360]

RECURSIVE SumOffsets(_, _, _)
SumOffsets(n, number, spacing) ==
    IF n = 0 THEN 0
    ELSE ClaimedOffset(n - 1, number, spacing) + SumOffsets(n - 1, number, spacing)

\* C18: replicate returns exactly number surfaces, the i-th (0-based)
\* displaced from the input location by offset_i along the unit vector of
\* the azimuth; the offsets sum to zero and offset_i = -offset_(number-1-i).
C18_ReplicateCentredOffsets ==
    Replicated =>
        LET number == r_args.number
            spacing == r_args.spacing
            unit == ClaimedUnit(r_args.azimuth)
            input == r_args.surface.vertices
        IN  /\ Len(r_out) = number
            /\ \A i \in 0..(number - 1) :
                 /\ Len(r_out[i + 1].vertices) = Len(input)
                 /\ \A v \in 1..Len(input) : \A c \in 1..3 :
                      r_out[i + 1].vertices[v][c] =
                          input[v][c] + unit[c] * ClaimedOffset(i, number, spacing)
                 /\ ClaimedOffset(i, number, spacing) =
                        -ClaimedOffset(number - 1 - i, number, spacing)
            /\ SumOffsets(number, number, spacing) = 0

\* C19: every surface replicate returns is named "<name> offset <i+1>",
\* <name> the name of the input surface at the call and i the 0-based
\* position; the names are pairwise distinct and carry one suffix more than
\* the input name.
C19_ReplicateNames ==
    Replicated =>
        /\ \A k \in 1..Len(r_out) :
             /\ r_out[k].name.base = r_args.surface.name.base
             /\ r_out[k].name.suffixes = r_args.surface.name.suffixes \o <<k>>
        /\ \A j, k \in 1..Len(r_out) : j # k => r_out[j].name # r_out[k].name

\* C20 as stated: with number = 1 replicate returns the single input surface
\* unmodified, vertices not displaced and name without " offset 1".
C20_SingleUnmodified ==
    (Replicated /\ r_args.number = 1) =>
        /\ Len(r_out) = 1
        /\ r_out[1].ref = "input"
        /\ r_out[1].vertices = r_args.surface.vertices
        /\ r_out[1].name = r_args.surface.name

\* C20: with number = 1 replicate returns the single input surface, its
\* vertices not displaced, and renames it "<name> offset 1".
C20_SingleRenamedNotDisplaced ==
    (Replicated /\ r_args.number = 1) =>
        /\ Len(r_out) = 1
        /\ r_out[1].ref = "input"
        /\ r_out[1].vertices = r_args.surface.vertices
        /\ r_out[1].name = [base |-> r_args.surface.name.base,
                            suffixes |-> r_args.surface.name.suffixes \o <<1>>]
        /\ r_surface.name = r_out[1].name
        /\ r_surface.vertices = r_args.surface.vertices

C20_Witness ==
    /\ Replicated
    /\ r_args.number = 1
    /\ r_args.spacing = 10
    /\ r_args.azimuth = 90
    /\ r_args.surface = plate_surface
    /\ r_out[1].vertices = plate_surface.vertices
    /\ r_out[1].name.suffixes = <<1>>

\* ----------------------------------------------- properties of PlateParams
\* C21: every PlateParams with number = 1 has spacing 0, whatever spacing
\* was supplied; with another number the supplied spacing is kept.
C21_SinglePlateSpacing ==
    p_params.live =>
        /\ p_params.number = p_args.number
        /\ p_params.number = 1 => p_params.spacing = 0
        /\ p_params.number # 1 => p_params.spacing = p_args.spacing

C21_Witness ==
    /\ p_params.live
    /\ p_args.number = 1
    /\ p_args.spacing = 10
    /\ p_params.spacing = 0

CenterCalled == p_op = "center"

\* the statistic of a column of elevations the claim names
ClaimedStatistic(zs, type) ==
    LET values == {zs[i] : i \in 1..Len(zs)}
    IN  CASE type = "min" -> SetMin(values)
          [] type = "max" -> SetMax(values)
          [] type = "mean" -> CHOOSE m \in SetMin(values)..SetMax(values) :
                                 m * Len(zs) = SumSeq(zs)

\* C22: in absolute mode center returns [easting, northing, elevation]
\* verbatim for any survey, reference surface and depth offset; in relative
\* mode it returns [mean survey x + easting, mean survey y + northing,
\* statistic(surface z) + depth_offset + elevation - halfplate], halfplate
\* being 0.5 * dip_length * sin(dip).
C22_CenterLocation ==
    CenterCalled =>
        IF ~p_params.relative_locations
        THEN /\ p_result = Ok
             /\ p_center = <<p_params.easting, p_params.northing, p_params.elevation>>
        ELSE (p_result = Ok /\ p_params.reference_type \in {"mean", "min", "max"}) =>
                \E halfplate \in 0..p_params.dip_length :
                    /\ 4 * halfplate = p_params.dip_length * TwiceSin(p_params.dip)
                    /\ Len(p_center) = 3
                    /\ p_center[1] * Len(p_call.survey) =
                          SumSeq(Column(p_call.survey, 1))
                            + p_params.easting * Len(p_call.survey)
                    /\ p_center[2] * Len(p_call.survey) =
                          SumSeq(Column(p_call.survey, 2))
                            + p_params.northing * Len(p_call.survey)
                    /\ p_center[3] =
                          ClaimedStatistic(Column(p_call.surface, 3),
                                           p_params.reference_type)
                            + p_call.depth_offset + p_params.elevation - halfplate

C30_InputIsLastAndMoved ==
    (r_op = "replicate" /\ r_args.number >= 1) =>
        LET n == r_args.number
            given == r_args.surface
            unit == AzimuthToUnitVector(r_args.azimuth)
        IN  /\ Len(r_out) = n
            /\ \A k \in 1..(n - 1) : r_out[k].ref = "copy"
            /\ r_out[n].ref = "input"
            /\ r_surface = [name |-> r_out[n].name, vertices |-> r_out[n].vertices]
            /\ r_surface.name =
                  [base |-> given.name.base,
                   suffixes |-> Append(given.name.suffixes, n)]
            /\ \A v \in 1..Len(given.vertices) : \A c \in 1..3 :
                  r_surface.vertices[v][c] =
                      given.vertices[v][c] + unit[c] * (n - 1) * r_args.spacing
            /\ r_surface # given

C30_Witness ==
    /\ r_op = "replicate"
    /\ r_args.number = 3
    /\ r_args.spacing = 10
    /\ r_args.azimuth = 90
    /\ r_args.surface = test_surface
    /\ r_out[1].ref = "copy"
    /\ r_out[3].ref = "input"
    /\ r_surface.vertices[1] = <<18, -2, 0>>
    /\ r_surface.name.suffixes = <<3>>

\* C28: an assignment to Geology.history that is rejected with
\* GeologyViolationError leaves the Geology with the history it had
\* accepted before: validation comes before the stored sequence is replaced.
C28_RejectedAssignmentKeepsHistory ==
    [][(g_op' = "set" /\ g_result'.raised = "GeologyViolationError") =>
          /\ geology' = geology
          /\ geology'.history # g_events']_vars

C28_Witness ==
    /\ g_op = "set"
    /\ g_result = OverburdenViolation
    /\ g_events = <<overburden, lithology, erosion>>
    /\ geology.live
    /\ geology.history = <<lithology, erosion>>

\* ----------------------------------------------------- properties of Plate
\* the directed edges of a triangle
DirectedEdges(t) == {<<t[1], t[2]>>, <<t[2], t[3]>>, <<t[3], t[1]>>}

\* C25: the 12 triangles of a Plate over its 8 vertices form a closed,
\* consistently oriented triangulation: every index is in 0..7, every
\* undirected edge is in exactly two triangles, and these two traverse it
\* in opposite directions.
C25_ClosedOrientedTriangulation ==
    pl_op = "triangles" =>
        /\ Len(pl_triangles) = 12
        /\ \A k \in 1..12 : \A c \in 1..3 : pl_triangles[k][c] \in 0..7
        /\ \A k \in 1..12 : \A e \in DirectedEdges(pl_triangles[k]) :
              /\ e[1] # e[2]
              /\ Cardinality({j \in 1..12 :
                    \/ e \in DirectedEdges(pl_triangles[j])
                    \/ <<e[2], e[1]>> \in DirectedEdges(pl_triangles[j])}) = 2
              /\ Cardinality({j \in 1..12 :
                    e \in DirectedEdges(pl_triangles[j])}) = 1
              /\ Cardinality({j \in 1..12 :
                    <<e[2], e[1]>> \in DirectedEdges(pl_triangles[j])}) = 1

C25_Witness ==
    /\ pl_op = "triangles"
    /\ pl_plate.live
    /\ pl_triangles[1] = <<0, 2, 1>>
    /\ pl_triangles[12] = <<6, 5, 7>>

VerticesRead == pl_op \in {"vertices", "triangles"} /\ pl_reads >= 1

C27_TopAnchorOnGivenCentre ==
    (VerticesRead /\ pl_plate.params.reference = "top") =>
        \A i \in 1..3 :
            pl_vertices[5][i] + pl_vertices[6][i] + pl_vertices[7][i]
                + pl_vertices[8][i] = 4 * pl_plate.given[i]

\* -------------------------------------------------- properties of Scenario
Geologized == sc_op = "geologize" /\ sc_result = Ok

\* C6: at every call of geologize the scenario's history is a Geology, a
\* history that has passed validation.
C6_GeologizeFoldsValidated ==
    sc_op = "geologize" =>
        /\ scenario.history.geology
        /\ ValidateHistory(scenario.history.events) = Ok

\* C15: assigning a mesh without a cell count to Scenario.mesh, in the
\* constructor or later, raises ValueError "Mesh must have n_cells." and
\* leaves the held mesh as it was (a failed constructor leaves no Scenario);
\* a mesh with a cell count is accepted and becomes the held mesh.
C15_MeshSetterValidates ==
    /\ [](/\ scenario.live => scenario.mesh.n_cells # None
          /\ sc_op \in {"init", "set_mesh"} =>
                IF sc_mesh.n_cells = None
                THEN /\ sc_result = [raised |-> "ValueError",
                                     message |-> "Mesh must have n_cells."]
                     /\ sc_op = "init" => ~scenario.live
                     /\ scenario.live => scenario.mesh # sc_mesh
                ELSE /\ sc_result # [raised |-> "ValueError",
                                     message |-> "Mesh must have n_cells."]
                     /\ sc_op = "set_mesh" => sc_result = Ok
                     /\ sc_result = Ok => scenario.live /\ scenario.mesh = sc_mesh)
    /\ [][(sc_op' = "set_mesh" /\ sc_result' # Ok) => scenario' = scenario]_vars

C15_Witness ==
    /\ sc_op = "set_mesh"
    /\ sc_mesh = unbuilt
    /\ sc_result = MeshError
    /\ scenario.live
    /\ scenario.mesh = octree

\* C16: geologize starts from one entry per mesh cell, all equal to
\* background, folds the events of the history through it in order, and the
\* values it attaches to the mesh under the scenario's name and returns are
\* exactly that folded array.
C16_GeologizeReturnsFolded ==
    Geologized =>
        /\ Len(sc_array) = scenario.mesh.n_cells
        /\ sc_array = Fold(scenario.history.events, 1, scenario.mesh,
                           [i \in 1..scenario.mesh.n_cells |-> scenario.background],
                           on_surface)
        /\ returned = sc_array
        /\ mesh_data = <<[name |-> scenario.name, values |-> sc_array]>>

\* the first event of a history whose realize raises
FirstFailing(events) ==
    SetMin({k \in 1..Len(events) : Raises(events[k]) # Ok})

\* C17: when the realize of an event raises during geologize, geologize
\* raises that error, the events after the failing one are not realized (the
\* array is as the events before it left it) and nothing is attached to the
\* mesh or returned.
C17_RealizeErrorPropagates ==
    (/\ sc_op = "geologize"
     /\ \E k \in 1..Len(scenario.history.events) :
            Raises(scenario.history.events[k]) # Ok) =>
        LET events == scenario.history.events
            before == SubSeq(events, 1, FirstFailing(events) - 1)
        IN  /\ sc_result = Raises(events[FirstFailing(events)])
            /\ sc_result = [raised |-> "ValueError",
                            message |-> "Surface vertices are not defined."]
            /\ sc_array = Fold(before, 1, scenario.mesh,
                               Uniform(scenario.mesh, scenario.background),
                               on_surface)
            /\ mesh_data = <<>>
            /\ returned = <<>>

C17_Witness ==
    /\ sc_op = "geologize"
    /\ scenario.mesh = octree
    /\ scenario.background = Num(2)
    /\ scenario.history.events = <<lithology, dep_void, erosion>>
    /\ sc_result = VerticesError
    /\ sc_array[1] = Num(2)
    /\ sc_array[6] = Num(3)
    /\ mesh_data = <<>>

\* C8: on the flat surfaces of test_scenario, background 0.0 and history
\* [lithology, overburden, erosion], geologize returns NaN above 0 m, 10.0
\* in (-1,0), 0.0 in (-2,-1), 1.0 in (-5,-2), 2.0 in (-10,-5) and 3.0
\* below -10 m.
C8_ScenarioValues ==
    (/\ Geologized
     /\ scenario.mesh = octree
     /\ scenario.background = Num(0)
     /\ scenario.history.events = <<lithology, overburden, erosion>>) =>
        \A i \in 1..Len(returned) :
            LET z == octree.centroids[i][2]
            IN  /\ z > 0 => returned[i] = NaN
                /\ (-2 < z /\ z < 0) => returned[i] = Num(10)
                /\ (-4 < z /\ z < -2) => returned[i] = Num(0)
                /\ (-10 < z /\ z < -4) => returned[i] = Num(1)
                /\ (-20 < z /\ z < -10) => returned[i] = Num(2)
                /\ z < -20 => returned[i] = Num(3)

====
